---- MODULE Spec2Model ----
(***************************************************************************)
(* A model of gnvim's UI synchronisation state, src/src/ui/state.rs:       *)
(* UIState and the redraw-event handlers that mutate it.  One action per   *)
(* handler; a handler that panics (an unwrap() on a missing entry) leaves  *)
(* the partially updated state behind and sets `panicked`, after which no  *)
(* further event is handled.                                               *)
(***************************************************************************)
EXTENDS Integers, Sequences, FiniteSets, TLC

\* ------------------------------------------------------------- bounds
MaxGrid == 3
MaxFlushGrid == 2
MaxCell == 1
MaxHlId == 2
MaxFontEvents == 2

\* --------------------------------------------------- program constants
BaseGrid == 1

GridIds == 1..MaxGrid
FlushGridIds == 1..MaxFlushGrid
\* 'linespace' values the editor may send
LineSpaces == {0, 2}
Cells == 0..MaxCell
HlIds == 1..MaxHlId

DefaultFont == "Monospace 12"
\* 'guifont' values the editor may send; the last one does not parse.
GuiFonts == {"FontA 10", "?"}
OptionNames == {"guifont", "linespace", "ambiwidth"}

\* Font::from_guifont: Err for a string that is no font description.
\* An Option/Result is a sequence of length at most one.
FontFromGuifont(s) == IF s = "?" THEN <<>> ELSE <<s>>

UnwrapOr(opt, dflt) == IF opt = <<>> THEN dflt ELSE opt[1]

\* The semantic highlight groups (ui/color.rs HlGroup) named in hl_group_set.
HlGroups == {"Pmenu", "PmenuSel", "Wildmenu", "WildmenuSel", "Tabline",
             "TablineSel", "TablineFill", "Cmdline", "CmdlineBorder"}
RecognisedNames == {"Pmenu", "PmenuSel", "TabLine", "TabLineSel",
                    "TabLineFill", "Normal"}
AllHlNames == RecognisedNames \cup {"Visual"}
FewHlNames == {"Normal", "Visual"}

VARIABLES
  grids,            \* UIState::grids: grid id -> Grid
  current_grid,     \* UIState::current_grid
  font,             \* UIState::font
  line_space,       \* UIState::line_space
  resize_on_flush,  \* UIState::resize_on_flush: <<>> or <<ResizeOptions>>
  resize_source_id, \* UIState::resize_source_id: <<>> or <<source id>>
  hl_groups_changed,\* UIState::hl_groups_changed
  hl_groups,        \* HlDefs: semantic group -> highlight id
  libwebkit2gtk,    \* the build's cfg(feature = "libwebkit2gtk")
  panicked,         \* a handler has panicked: the process is gone
  ev,               \* the event the last step handled
  calls,            \* the calls the last step made on its collaborators
  activated,        \* history: a cursor_goto has switched the active grid
  cycle,            \* history: option-set events since the last flush
  hl_defs,          \* UIState::hl_defs: default colors and id -> Highlight
  windows,          \* UIState::windows: grid id -> Window
  mode_infos,       \* UIState::mode_infos
  current_mode,     \* UIState::current_mode: <<>> or <<ModeInfo>>
  timers,           \* the glib sources that are scheduled and not removed
  batch,            \* handle_notify: the events of the batch still to apply
  received          \* history: the batch as it was received

vars == <<grids, current_grid, font, line_space, resize_on_flush,
          resize_source_id, hl_groups_changed, hl_groups, libwebkit2gtk,
          panicked, ev, calls, activated, cycle, hl_defs, windows,
          mode_infos, current_mode, timers, batch, received>>

\* What the grid, option and highlight-group handlers never write.
tables == <<hl_defs, windows, mode_infos, current_mode>>

\* ------------------------------------------------------------ helpers
\* The event of a step, with what the state was when it arrived: the current
\* grid, whether a resize intent was pending, the groups-changed flag and
\* the number of GuiFont events since the last flush.
Ev(type, grid, name, val) ==
  [type |-> type, grid |-> grid, name |-> name, val |-> val,
   cur |-> current_grid, pending |-> resize_on_flush # <<>>,
   changed |-> hl_groups_changed, nFont |-> cycle.nFont,
   w |-> 0, h |-> 0, row |-> 0, col |-> 0, anchor |-> "", again |-> FALSE,
   infos |-> <<>>]

\* An event that carries a width and a height.
EvSize(type, grid, w, h) ==
  [Ev(type, grid, "", 0) EXCEPT !.w = w, !.h = h]

Call(fn, grid, f, ls) ==
  [fn |-> fn, grid |-> grid, font |-> f, ls |-> ls, row |-> 0, col |-> 0]

CursorCall(grid, row, col) ==
  [fn |-> "grid.cursor_goto", grid |-> grid, font |-> "", ls |-> 0,
   row |-> row, col |-> col]

ResizeOptions(f, ls) == [font |-> f, line_space |-> ls]

\* Grid::new(id, win, font, line_space, cols, rows, ..): the grid keeps the
\* font and line space it is given (get_font, get_line_space), has the given
\* size, no mode and is not active.
GridNew(f, ls, w, h) ==
  [active |-> FALSE, font |-> f, line_space |-> ls, cols |-> w, rows |-> h,
   mode |-> <<>>]

\* Grid::get_grid_metrics: the pixel size of a cell under a font and a line
\* space (font measurement is abstracted to a table).
CellWidth(f) == IF f = DefaultFont THEN 2 ELSE 3
CellHeight(f, ls) == (IF f = DefaultFont THEN 3 ELSE 4) + ls

\* The pixel size of the area the base grid is drawn in.
PxWidth == 8
PxHeight == 9

\* Grid::calc_size: the columns and rows that fit that area.
CalcSize(f, ls) ==
  [cols |-> PxWidth \div CellWidth(f), rows |-> PxHeight \div CellHeight(f, ls)]

\* The size the base grid starts with, and grid_resize events ask for in
\* the specifications that do not vary sizes.
BaseCols == CalcSize(DefaultFont, 0).cols
BaseRows == CalcSize(DefaultFont, 0).rows

RECURSIVE SeqOfSet(_)
SeqOfSet(S) ==
  IF S = {} THEN <<>>
  ELSE LET m == CHOOSE x \in S : \A y \in S : x <= y
       IN <<m>> \o SeqOfSet(S \ {m})

\* `for grid in self.grids.values() { grid.fn(..) }`: one call per grid.
\* HashMap iteration order is unspecified; the calls are listed by id.
ForEachGrid(fn, f, ls) ==
  LET ids == SeqOfSet(DOMAIN grids)
  IN [i \in 1..Len(ids) |-> Call(fn, ids[i], f, ls)]

NoCycle ==
  [nFont |-> 0, gotLineSpace |-> FALSE, lastFont |-> DefaultFont,
   lastLineSpace |-> 0, baseFont |-> DefaultFont, baseLineSpace |-> 0]

Panic == panicked' = TRUE

\* A color is a name; an Option<Color> is a sequence of length at most one.
Colors == {"black", "white"}

Highlight(fg, bg, sp) == [foreground |-> fg, background |-> bg, special |-> sp]

\* HlDefs::default(): the default colors, and definition 0 holding them.
HlDefsNew ==
  [default_fg |-> "black", default_bg |-> "black", default_sp |-> "black",
   defs |-> (0 :> Highlight(<<"black">>, <<"black">>, <<"black">>))]

\* -------------------------------------------------------------- Init
\* The state UI::init builds: the base grid exists, is current and active.
Init ==
  /\ grids = (BaseGrid :> [GridNew(DefaultFont, 0, BaseCols, BaseRows)
                             EXCEPT !.active = TRUE])
  /\ current_grid = BaseGrid
  /\ font = DefaultFont
  /\ line_space = 0
  /\ resize_on_flush = <<>>
  /\ resize_source_id = <<>>
  /\ hl_groups_changed = FALSE
  /\ hl_groups = <<>>
  /\ libwebkit2gtk \in BOOLEAN
  /\ panicked = FALSE
  /\ ev = [type |-> "init", grid |-> 0, name |-> "", val |-> 0,
           cur |-> BaseGrid, pending |-> FALSE, changed |-> FALSE,
           nFont |-> 0, w |-> 0, h |-> 0, row |-> 0, col |-> 0,
           anchor |-> "", again |-> FALSE, infos |-> <<>>]
  /\ calls = <<>>
  /\ activated = FALSE
  /\ cycle = NoCycle
  /\ hl_defs = HlDefsNew
  /\ windows = <<>>
  /\ mode_infos = <<>>
  /\ current_mode = <<>>
  /\ timers = {}
  /\ batch = <<>>
  /\ received = <<>>

\* ----------------------------------------------------------- actions
\* UIState::grid_cursor_goto
GridCursorGoto(g, row, col) ==
  /\ ~panicked
  /\ ev' = Ev("grid_cursor_goto", g, "", 0)
  /\ IF g # current_grid
     THEN IF current_grid \notin DOMAIN grids
          THEN /\ Panic
               /\ calls' = <<>>
               /\ UNCHANGED <<grids, current_grid, activated>>
          ELSE LET off == [grids EXCEPT ![current_grid].active = FALSE]
                   pre == <<Call("grid.set_active(false)", current_grid, "", 0),
                            Call("grid.tick", current_grid, "", 0)>>
               IN /\ current_grid' = g
                  /\ IF g \notin DOMAIN grids
                     THEN /\ Panic
                          /\ grids' = off
                          /\ calls' = pre
                          /\ UNCHANGED activated
                     ELSE /\ grids' = [off EXCEPT ![g].active = TRUE]
                          /\ calls' = pre \o
                               <<Call("grid.set_active(true)", g, "", 0),
                                 CursorCall(g, row, col)>>
                          /\ activated' = TRUE
                          /\ UNCHANGED panicked
     ELSE /\ IF g \notin DOMAIN grids
             THEN Panic /\ calls' = <<>>
             ELSE /\ calls' = <<CursorCall(g, row, col)>>
                  /\ UNCHANGED panicked
          /\ UNCHANGED <<grids, current_grid, activated>>
  /\ UNCHANGED <<font, line_space, resize_on_flush, resize_source_id,
                 hl_groups_changed, hl_groups, libwebkit2gtk, cycle, tables,
                 timers>>

\* Grid::resize(win, width, height, ..): the grid has that size.
Resized(grid, w, h) == [grid EXCEPT !.cols = w, !.rows = h]

\* A grid_resize that hands the new grid no mode.
NewGridNoMode == <<>>

\* grid_resize: `if let Some(ref mode) = self.current_mode { set_mode }`
NewGridMode == current_mode

\* A grid_resize that resizes an existing grid to the size it first had.
ResizeKeepsSize(grid, w, h) == grid

\* grid_resize: `grid.resize(&win, e.width, e.height, ..)` on a grid of
\* the registry
ResizeExisting(grid, w, h) == Resized(grid, w, h)

\* UIState::grid_resize
GridResize(g, w, h) ==
  /\ ~panicked
  /\ ev' = EvSize("grid_resize", g, w, h)
  /\ IF g \in DOMAIN grids
     THEN /\ calls' = <<Call("grid.resize", g, "", 0)>>
          /\ grids' = [grids EXCEPT ![g] = ResizeExisting(@, w, h)]
     ELSE /\ calls' = <<Call("Grid::new", g, font, line_space),
                        Call("grid.resize", g, "", 0)>>
          /\ grids' = (g :> Resized([GridNew(font, line_space, w, h)
                                       EXCEPT !.mode = NewGridMode], w, h))
                       @@ grids
  /\ UNCHANGED <<current_grid, font, line_space, resize_on_flush,
                 resize_source_id, hl_groups_changed, hl_groups,
                 libwebkit2gtk, panicked, activated, cycle, tables, timers>>

\* A grid_destroy without the reset of current_grid.
GridDestroyKeepsCurrent(g) == current_grid

\* grid_destroy: `self.current_grid = 1`
GridDestroyCurrent(g) == BaseGrid

\* A grid_destroy that looks the grid up and does not remove it.
GridDestroyRemovesNothing(g) == grids

\* grid_destroy: `self.grids.remove(grid)`
GridDestroyRemove(g) == [x \in DOMAIN grids \ {g} |-> grids[x]]

\* UIState::grid_destroy
\* A grid_destroy that makes the base grid current before it finds the
\* grid missing.
DestroyMissingResets == BaseGrid

\* grid_destroy: `self.grids.remove(grid).unwrap()` fails before
\* `self.current_grid = 1` is reached.
DestroyMissingCurrent == current_grid

\* A grid_destroy that drops the window of the grid with the grid.
DestroyDropsWindow(g) == [x \in DOMAIN windows \ {g} |-> windows[x]]

\* grid_destroy writes self.grids and self.current_grid, never self.windows.
DestroyWindows(g) == windows

GridDestroy(g) ==
  /\ ~panicked
  /\ ev' = Ev("grid_destroy", g, "", 0)
  /\ calls' = <<>>
  /\ IF g \notin DOMAIN grids
     THEN /\ Panic
          /\ current_grid' = DestroyMissingCurrent
          /\ UNCHANGED <<grids, windows>>
     ELSE /\ grids' = GridDestroyRemove(g)
          /\ current_grid' = GridDestroyCurrent(g)
          /\ windows' = DestroyWindows(g)
          /\ UNCHANGED panicked
  /\ UNCHANGED <<font, line_space, resize_on_flush, resize_source_id,
                 hl_groups_changed, hl_groups, libwebkit2gtk, activated,
                 cycle, hl_defs, mode_infos, current_mode, timers>>

\* option_set's `self.resize_on_flush.take().unwrap_or_else(|| ..)`: the
\* pending options, or else the base grid's font and line space.
TakeOrBase ==
  IF resize_on_flush # <<>>
  THEN resize_on_flush[1]
  ELSE ResizeOptions(grids[BaseGrid].font, grids[BaseGrid].line_space)

\* The unwrap() inside that closure fails when there is no base grid.
TakeOrBasePanics == resize_on_flush = <<>> /\ BaseGrid \notin DOMAIN grids

\* A GuiFont arm that writes the font only into a fresh intent.
GuiFontKeepsFirst(opts, f) ==
  IF resize_on_flush = <<>> THEN [opts EXCEPT !.font = f] ELSE opts

\* option_set, GuiFont arm: `opts.font = font`
GuiFontOpts(opts, f) == [opts EXCEPT !.font = f]

\* A LineSpace arm that starts from Font::default(), not the pending intent.
LineSpaceDropsFont(opts, val) == ResizeOptions(DefaultFont, val)

\* option_set, LineSpace arm: `opts.line_space = val`
LineSpaceOpts(opts, val) == [opts EXCEPT !.line_space = val]

CycleStart ==
  IF cycle.nFont = 0 /\ ~cycle.gotLineSpace
  THEN [cycle EXCEPT !.baseFont = grids[BaseGrid].font,
                     !.baseLineSpace = grids[BaseGrid].line_space]
  ELSE cycle

Bump(n) == IF n < MaxFontEvents THEN n + 1 ELSE n

\* UIState::option_set
OptionSet(name, s, val) ==
  /\ ~panicked
  /\ calls' = <<>>
  /\ CASE name = "guifont" ->
            LET f == UnwrapOr(FontFromGuifont(s), DefaultFont)
            IN /\ ev' = Ev("option_set", 0, name, 0) 
               /\ font' = f
               /\ UNCHANGED line_space
               /\ IF TakeOrBasePanics
                  THEN Panic /\ UNCHANGED <<resize_on_flush, cycle>>
                  ELSE /\ resize_on_flush' = <<GuiFontOpts(TakeOrBase, f)>>
                       /\ cycle' = [CycleStart EXCEPT
                                      !.nFont = Bump(@), !.lastFont = f]
                       /\ UNCHANGED panicked
       [] name = "linespace" ->
               /\ ev' = Ev("option_set", 0, name, val)
               /\ line_space' = val
               /\ UNCHANGED font
               /\ IF TakeOrBasePanics
                  THEN Panic /\ UNCHANGED <<resize_on_flush, cycle>>
                  ELSE /\ resize_on_flush' = <<LineSpaceOpts(TakeOrBase, val)>>
                       /\ cycle' = [CycleStart EXCEPT
                                      !.gotLineSpace = TRUE,
                                      !.lastLineSpace = val]
                       /\ UNCHANGED panicked
       [] OTHER ->
               /\ ev' = Ev("option_set", 0, name, 0)
               /\ UNCHANGED <<font, line_space, resize_on_flush, cycle,
                              panicked>>
  /\ UNCHANGED <<grids, current_grid, resize_source_id, hl_groups_changed,
                 hl_groups, libwebkit2gtk, activated, tables, timers>>

\* hl_group_set's match: the groups a name rebinds.
HlGroupsOf(name) ==
  CASE name = "Pmenu" -> {"Pmenu", "Wildmenu"}
    [] name = "PmenuSel" -> {"PmenuSel", "WildmenuSel"}
    [] name = "TabLine" -> {"Tabline"}
    [] name = "TabLineSel" -> {"TablineSel", "CmdlineBorder"}
    [] name = "TabLineFill" -> {"TablineFill"}
    [] name = "Normal" -> {"Cmdline"}
    [] OTHER -> {}

\* HlDefs::set_hl_group, for each group of the name
SetHlGroups(B, id) ==
  [x \in DOMAIN hl_groups \cup B |-> IF x \in B THEN id ELSE hl_groups[x]]

\* hl_group_set's `self.hl_groups_changed = true`
HlChangedAfterSet(name) == TRUE

\* UIState::hl_group_set
HlGroupSet(name, id) ==
  /\ ~panicked
  /\ ev' = Ev("hl_group_set", 0, name, id)
  /\ calls' = <<>>
  /\ hl_groups' = SetHlGroups(HlGroupsOf(name), id)
  /\ hl_groups_changed' = HlChangedAfterSet(name)
  /\ UNCHANGED <<grids, current_grid, font, line_space, resize_on_flush,
                 resize_source_id, libwebkit2gtk, panicked, activated, cycle,
                 tables, timers>>

\* A flush that updates the cell metrics of the base grid alone.
UpdateBaseOnly(opts) ==
  [g \in DOMAIN grids |->
     IF g = BaseGrid
     THEN [grids[g] EXCEPT !.font = opts.font,
                           !.line_space = opts.line_space]
     ELSE grids[g]]

\* flush: `grid.update_cell_metrics(opts.font, opts.line_space, ..)` on
\* every grid, which from then on has that font and line space
UpdateCellMetrics(opts) ==
  [g \in DOMAIN grids |->
     [grids[g] EXCEPT !.font = opts.font, !.line_space = opts.line_space]]

\* nvim.ui_try_resize(cols, rows)
ResizeScreenCall(size) ==
  [fn |-> "nvim.ui_try_resize", grid |-> 0, font |-> "", ls |-> 0,
   row |-> size.rows, col |-> size.cols]

\* The sources named by resize_source_id (none or one).
Outstanding == {resize_source_id[i] : i \in 1..Len(resize_source_id)}

\* A flush that forgets the source id without removing the source.
FlushLeavesSource == timers

\* flush: `if let Some(id) = id.take() { glib::source::source_remove(id) }`
FlushTimersAfter == timers \ Outstanding

\* flush: the calls of the `if let Some(opts)` arm after the base grid was
\* found: cancel the delayed resize, ask for the resize, tell the surfaces.
FlushResizeCalls(opts) ==
  <<Call("grid.calc_size", BaseGrid, "", 0)>>
  \o (IF resize_source_id # <<>>
      THEN <<Call("glib.source_remove", 0, "", 0)>> ELSE <<>>)
  \o <<ResizeScreenCall(CalcSize(opts.font, opts.line_space)),
       Call("popupmenu.set_font", 0, opts.font, 0),
       Call("cmdline.set_font", 0, opts.font, 0),
       Call("tabline.set_font", 0, opts.font, 0)>>
  \o (IF libwebkit2gtk
      THEN <<Call("cursor_tooltip.set_font", 0, opts.font, 0)>> ELSE <<>>)
  \o <<Call("cmdline.set_line_space", 0, "", opts.line_space),
       Call("popupmenu.set_line_space", 0, "", opts.line_space),
       Call("tabline.set_line_space", 0, "", opts.line_space)>>

\* flush: the calls of the `if self.hl_groups_changed` arm
FlushColorCalls ==
  <<Call("popupmenu.set_colors", 0, "", 0),
    Call("tabline.set_colors", 0, "", 0),
    Call("cmdline.set_colors", 0, "", 0),
    Call("cmdline.wildmenu_set_colors", 0, "", 0)>>

\* A flush that pushes the colors whatever the flag says.
FlushColorsAlways == TRUE

\* flush: `if self.hl_groups_changed`
FlushColorsDue == hl_groups_changed

\* A flush that pushes the colors and leaves the flag as it was.
FlushKeepsChanged == hl_groups_changed

\* flush: `self.hl_groups_changed = false`
FlushChangedAfter == FALSE

\* A flush that reads the intent (as_ref) instead of taking it.
FlushKeepsIntent == resize_on_flush

\* flush: what `self.resize_on_flush.take()` leaves behind
FlushIntentAfter == <<>>

\* UIState::flush
Flush ==
  /\ ~panicked
  /\ ev' = Ev("flush", 0, "", 0)
  /\ cycle' = NoCycle
  /\ resize_on_flush' = FlushIntentAfter
  /\ LET pre == ForEachGrid("grid.flush", "", 0)
         colors == IF FlushColorsDue THEN FlushColorCalls ELSE <<>>
     IN IF resize_on_flush # <<>>
        THEN LET opts == resize_on_flush[1]
                 metrics == ForEachGrid("grid.update_cell_metrics",
                                        opts.font, opts.line_space)
             IN /\ grids' = UpdateCellMetrics(opts)
                /\ IF BaseGrid \notin DOMAIN grids
                   THEN /\ Panic
                        /\ calls' = pre \o metrics
                        /\ UNCHANGED <<resize_source_id, hl_groups_changed,
                                       timers>>
                   ELSE /\ calls' = pre \o metrics \o FlushResizeCalls(opts)
                                    \o colors
                        /\ resize_source_id' = <<>>
                        /\ timers' = FlushTimersAfter
                        /\ hl_groups_changed' =
                             IF FlushColorsDue THEN FlushChangedAfter
                             ELSE hl_groups_changed
                        /\ UNCHANGED panicked
        ELSE /\ calls' = pre \o colors
             /\ hl_groups_changed' =
                  IF FlushColorsDue THEN FlushChangedAfter
                  ELSE hl_groups_changed
             /\ UNCHANGED <<grids, resize_source_id, panicked, timers>>
  /\ UNCHANGED <<current_grid, font, line_space, hl_groups, libwebkit2gtk,
                 activated, tables>>

TimerIds == {"source1", "source2"}

\* The window's size changed: a delayed ui_try_resize is scheduled, replacing
\* (cancelling) one that is still pending.
ScheduleDelayedResize ==
  /\ ~panicked
  /\ timers \ Outstanding # TimerIds
  /\ ev' = Ev("size_allocate", 0, "", 0)
  /\ calls' = (IF resize_source_id # <<>>
               THEN <<Call("glib.source_remove", 0, "", 0)>> ELSE <<>>)
              \o <<Call("glib.timeout_add", 0, "", 0)>>
  /\ LET t == CHOOSE x \in TimerIds \ (timers \ Outstanding) : TRUE
     IN /\ timers' = (timers \ Outstanding) \cup {t}
        /\ resize_source_id' = <<t>>
  /\ UNCHANGED <<grids, current_grid, font, line_space, resize_on_flush,
                 hl_groups_changed, hl_groups, libwebkit2gtk, panicked,
                 activated, cycle, tables>>

\* A scheduled source runs: it asks the editor to resize to what fits now
\* and is gone.
DelayedResizeFires ==
  /\ ~panicked
  /\ \E t \in timers :
       /\ ev' = Ev("timeout", 0, t, 0)
       /\ timers' = timers \ {t}
       /\ resize_source_id' =
            IF resize_source_id = <<t>> THEN <<>> ELSE resize_source_id
  /\ calls' = <<ResizeScreenCall(CalcSize(font, line_space))>>
  /\ UNCHANGED <<grids, current_grid, font, line_space, resize_on_flush,
                 hl_groups_changed, hl_groups, libwebkit2gtk, panicked,
                 activated, cycle, tables>>

\* The highlight ids of hl_attr_define events: the default definition and
\* one other.
HlDefIds == {0, 1}

OptColors == {<<>>} \cup {<<c>> : c \in Colors}

\* The Highlight values of hl_attr_define events.
Highlights ==
  {Highlight(fg, bg, sp) : fg \in OptColors, bg \in OptColors,
                           sp \in OptColors}

\* UIState::default_colors_set
DefaultColorsSet(fg, bg, sp) ==
  /\ ~panicked
  /\ ev' = Ev("default_colors_set", 0, "", 0)
  /\ LET defaults == [hl_defs EXCEPT !.default_fg = fg, !.default_bg = bg,
                                     !.default_sp = sp]
     IN IF 0 \in DOMAIN hl_defs.defs
        THEN /\ hl_defs' = [defaults EXCEPT
                              !.defs[0].foreground = <<fg>>,
                              !.defs[0].background = <<bg>>,
                              !.defs[0].special = <<sp>>]
             /\ calls' = ForEachGrid("grid.redraw", "", 0)
                         \o (IF libwebkit2gtk
                             THEN <<Call("cursor_tooltip.set_colors", 0, "", 0)>>
                             ELSE <<>>)
                         \o <<Call("css_provider.load_from_data", 0, "", 0)>>
             /\ UNCHANGED panicked
        ELSE /\ hl_defs' = defaults
             /\ calls' = <<>>
             /\ Panic
  /\ UNCHANGED <<grids, current_grid, font, line_space, resize_on_flush,
                 resize_source_id, hl_groups_changed, hl_groups,
                 libwebkit2gtk, activated, cycle, windows, mode_infos,
                 current_mode, timers>>

\* UIState::hl_attr_define
HlAttrDefine(id, hl) ==
  /\ ~panicked
  /\ ev' = Ev("hl_attr_define", 0, "", id)
  /\ hl_defs' = [hl_defs EXCEPT !.defs = (id :> hl) @@ @]
  /\ calls' = <<>>
  /\ UNCHANGED <<grids, current_grid, font, line_space, resize_on_flush,
                 resize_source_id, hl_groups_changed, hl_groups,
                 libwebkit2gtk, panicked, activated, cycle, windows,
                 mode_infos, current_mode, timers>>

\* The longest notification the batch specification delivers.
MaxBatch == 3

\* A redraw event of a notification.
Redraw(type, grid, name, val) ==
  [type |-> type, grid |-> grid, name |-> name, val |-> val]

\* The redraw events a notification is made of.
BatchEvents ==
  {Redraw("flush", 0, "", 0), Redraw("option_set", 0, "linespace", 2)}
  \cup {Redraw("grid_resize", g, "", 0) : g \in {BaseGrid, 2}}
  \cup {Redraw("grid_destroy", 2, "", 0)}

RECURSIVE SeqsUpTo(_, _)
\* The sequences over S of length 0..n.
SeqsUpTo(S, n) ==
  IF n = 0 THEN {<<>>}
  ELSE LET shorter == SeqsUpTo(S, n - 1)
       IN shorter \cup {Append(s, x) : s \in shorter, x \in S}

Notifications == SeqsUpTo(BatchEvents, MaxBatch) \ {<<>>}

\* A handle_notify that takes the events from the back.
LastEvent(events) == events[Len(events)]

\* handle_notify: `events.into_iter().for_each(..)` takes the events from
\* the front.
NextEvent(events) == Head(events)

\* The events left once NextEvent is taken.
RestEvents(events) == Tail(events)

\* UIState::handle_redraw_event: each event goes to its handler.
Dispatch(e) ==
  CASE e.type = "flush" -> Flush
    [] e.type = "option_set" -> OptionSet(e.name, "", e.val)
    [] e.type = "grid_resize" -> GridResize(e.grid, BaseCols, BaseRows)
    [] e.type = "grid_destroy" -> GridDestroy(e.grid)

\* UIState::handle_notify is called with Notify::RedrawEvent(events).
ReceiveNotify(events) ==
  /\ ~panicked
  /\ batch = <<>>
  /\ batch' = events
  /\ received' = events
  /\ ev' = Ev("notify", 0, "", 0)
  /\ calls' = <<>>
  /\ UNCHANGED <<grids, current_grid, font, line_space, resize_on_flush,
                 resize_source_id, hl_groups_changed, hl_groups,
                 libwebkit2gtk, panicked, activated, cycle, tables, timers>>

\* handle_notify: one step of the for_each.
HandleNext ==
  /\ batch # <<>>
  /\ Dispatch(NextEvent(batch))
  /\ batch' = RestEvents(batch)
  /\ UNCHANGED received

\* The widths and heights of grid_resize events.
Widths == {2, 5}
Heights == {1, 4}

\* Window::new(.., container, grid, ..): a window in its container that
\* has not been placed or shown.
WindowNew(container) ==
  [container |-> container, x |-> 0, y |-> 0, width |-> 0, height |-> 0,
   visible |-> FALSE, external |-> FALSE]

\* Window::set_position(x, y, width, height) and Window::show()
Placed(window, x, y, width, height) ==
  [window EXCEPT !.x = x, !.y = y, !.width = width, !.height = height,
                 !.visible = TRUE]

\* Window::set_external(parent, (width, height))
External(window, width, height) ==
  [window EXCEPT !.external = TRUE, !.width = width, !.height = height,
                 !.visible = TRUE]

\* Grid::get_grid_metrics
Metrics(grid) ==
  [cell_width |-> CellWidth(grid.font),
   cell_height |-> CellHeight(grid.font, grid.line_space),
   cols |-> grid.cols, rows |-> grid.rows]

Max(a, b) == IF a >= b THEN a ELSE b

\* `(a / b) as i64` for b > 0: the quotient, truncated towards zero.
TruncDiv(a, b) == IF a >= 0 THEN a \div b ELSE 0 - ((0 - a) \div b)

\* `self.windows.entry(grid).or_insert_with(|| Window::new(..))`
EntryOrInsert(g, container) ==
  IF g \in DOMAIN windows THEN windows
  ELSE (g :> WindowNew(container)) @@ windows

\* The Window::new call of or_insert_with, when the entry is vacant.
EntryCalls(g) ==
  IF g \in DOMAIN windows THEN <<>> ELSE <<Call("Window::new", g, "", 0)>>

\* A position handler that makes the window entry before it looks the grid
\* up.
EntryBeforeLookup(g, container) == EntryOrInsert(g, container)

\* window_pos, window_float_pos, window_external_pos:
\* `self.grids.get(&evt.grid).unwrap()` comes before `self.windows.entry`,
\* so with the grid missing the registry of windows is as it was.
WindowsOnMissingGrid(g, container) == windows

\* The window event of a step, with `again` telling that the event before
\* it was the same event.
EvWin(type, g, ag, anchor, row, col, w, h) ==
  LET e == [Ev(type, g, "", ag) EXCEPT !.anchor = anchor, !.row = row,
                                        !.col = col, !.w = w, !.h = h]
  IN [e EXCEPT !.again = ([ev EXCEPT !.again = FALSE] = e /\ ~panicked)]

\* What the window handlers never write.
winFrame == <<current_grid, font, line_space, resize_on_flush,
              resize_source_id, hl_groups_changed, hl_groups, libwebkit2gtk,
              activated, cycle, hl_defs, mode_infos, current_mode, timers>>

\* A window_pos that moves the window by the event's cells from where it is.
PosXRelative(window, start_col, m) == window.x + start_col * m.cell_width

\* window_pos: `let x = evt.start_col as f64 * grid_metrics.cell_width`
PosX(window, start_col, m) == start_col * m.cell_width

\* window_pos: `let y = evt.start_row as f64 * grid_metrics.cell_height`
PosY(window, start_row, m) == start_row * m.cell_height

\* window_pos: `grid.resize(&win, evt.width, evt.height, ..)`
PosResizesGrid(grid, w, h) == Resized(grid, w, h)

\* UIState::window_pos
WindowPos(g, start_row, start_col, w, h) ==
  /\ ~panicked
  /\ ev' = EvWin("window_pos", g, 0, "", start_row, start_col, w, h)
  /\ IF g \notin DOMAIN grids
     THEN /\ Panic
          /\ windows' = WindowsOnMissingGrid(g, "windows")
          /\ calls' = <<>>
          /\ UNCHANGED grids
     ELSE IF BaseGrid \notin DOMAIN grids
     THEN /\ Panic
          /\ windows' = EntryOrInsert(g, "windows")
          /\ calls' = EntryCalls(g)
          /\ UNCHANGED grids
     ELSE LET m == Metrics(grids[BaseGrid])
          IN /\ windows' =
                  [EntryOrInsert(g, "windows") EXCEPT
                     ![g] = Placed(@, PosX(@, start_col, m),
                                   PosY(@, start_row, m),
                                   w * m.cell_width, h * m.cell_height)]
             /\ grids' = [grids EXCEPT ![g] = PosResizesGrid(@, w, h)]
             /\ calls' = EntryCalls(g)
                         \o <<Call("window.set_position", g, "", 0),
                              Call("window.show", g, "", 0),
                              Call("grid.resize", g, "", 0)>>
             /\ UNCHANGED panicked
  /\ UNCHANGED winFrame

\* WindowFloatPos::anchor
Anchors == {"NW", "NE", "SW", "SE"}

\* Anchor::is_west, Anchor::is_north
IsWest(anchor) == anchor \in {"NW", "SW"}
IsNorth(anchor) == anchor \in {"NW", "NE"}

\* A float position that is not clamped.
FloatXUnclamped(x_offset, cell_width, anchor_col, width, anchor) ==
  IF IsWest(anchor) THEN x_offset + cell_width * anchor_col
  ELSE x_offset + cell_width * anchor_col - width

\* window_float_pos: `let x = if evt.anchor.is_west() {..} else {..}.max(0.0)`
FloatX(x_offset, cell_width, anchor_col, width, anchor) ==
  Max(0, IF IsWest(anchor) THEN x_offset + cell_width * anchor_col
         ELSE x_offset + cell_width * anchor_col - width)

\* window_float_pos: `let y = if evt.anchor.is_north() {..} else {..}.max(0.0)`
FloatY(y_offset, cell_height, anchor_row, height, anchor) ==
  Max(0, IF IsNorth(anchor) THEN y_offset + cell_height * anchor_row
         ELSE y_offset + cell_height * anchor_row - height)

\* window_float_pos: `grid_metrics.rows + y / base_metrics.cell_height >
\* base_metrics.rows`, on pixels
RowsOverflow(gm, bm, y) ==
  gm.rows * bm.cell_height + y > bm.rows * bm.cell_height

\* window_float_pos: `grid_metrics.cols + x / base_metrics.cell_width >
\* base_metrics.cols`, on pixels
ColsOverflow(gm, bm, x) ==
  gm.cols * bm.cell_width + x > bm.cols * bm.cell_width

\* window_float_pos: `base_metrics.rows - y / base_metrics.cell_height - 1.0`,
\* as i64
FitRows(bm, y) ==
  TruncDiv(bm.rows * bm.cell_height - y - bm.cell_height, bm.cell_height)

\* window_float_pos: `base_metrics.cols - x / base_metrics.cell_width`,
\* as i64
FitCols(bm, x) == TruncDiv(bm.cols * bm.cell_width - x, bm.cell_width)

\* nvim.ui_try_resize_grid(grid, cols, rows)
ResizeGridCall(g, cols, rows) ==
  [fn |-> "nvim.ui_try_resize_grid", grid |-> g, font |-> "", ls |-> 0,
   row |-> rows, col |-> cols]

\* window_float_pos: the resize-grid request, if new_size has a part.
FloatResizeCalls(g, gm, bm, x, y) ==
  IF RowsOverflow(gm, bm, y) \/ ColsOverflow(gm, bm, x)
  THEN <<ResizeGridCall(g,
           IF ColsOverflow(gm, bm, x) THEN FitCols(bm, x) ELSE gm.cols,
           IF RowsOverflow(gm, bm, y) THEN FitRows(bm, y) ELSE gm.rows)>>
  ELSE <<>>

\* A float position that applies the size it requests to its grid at once.
FloatResizesGrid(g, gm, bm, x, y) ==
  [grids EXCEPT ![g] =
     Resized(@, IF ColsOverflow(gm, bm, x) THEN FitCols(bm, x) ELSE gm.cols,
                IF RowsOverflow(gm, bm, y) THEN FitRows(bm, y) ELSE gm.rows)]

\* window_float_pos: the resize-grid request is spawned and not awaited,
\* and nothing else touches a grid.
FloatGridsAfter(g, gm, bm, x, y) == grids

\* UIState::window_float_pos
WindowFloatPos(g, ag, anchor, anchor_row, anchor_col) ==
  /\ ~panicked
  /\ ev' = EvWin("window_float_pos", g, ag, anchor, anchor_row, anchor_col,
                 0, 0)
  /\ IF \/ ag \notin DOMAIN grids
        \/ (ag # BaseGrid /\ ag \notin DOMAIN windows)
     THEN /\ Panic
          /\ calls' = <<>>
          /\ UNCHANGED <<windows, grids>>
     ELSE IF g \notin DOMAIN grids
     THEN /\ Panic
          /\ windows' = WindowsOnMissingGrid(g, "windows_float")
          /\ calls' = <<>>
          /\ UNCHANGED grids
     ELSE IF BaseGrid \notin DOMAIN grids
     THEN /\ Panic
          /\ windows' = EntryOrInsert(g, "windows_float")
          /\ calls' = EntryCalls(g)
          /\ UNCHANGED grids
     ELSE LET x_offset == IF ag = BaseGrid THEN 0 ELSE windows[ag].x
              y_offset == IF ag = BaseGrid THEN 0 ELSE windows[ag].y
              am == Metrics(grids[ag])
              gm == Metrics(grids[g])
              bm == Metrics(grids[BaseGrid])
              width == gm.cols * gm.cell_width
              height == gm.rows * gm.cell_height
              x == FloatX(x_offset, am.cell_width, anchor_col, width, anchor)
              y == FloatY(y_offset, am.cell_height, anchor_row, height,
                          anchor)
          IN /\ windows' = [EntryOrInsert(g, "windows_float") EXCEPT
                              ![g] = Placed(@, x, y, width, height)]
             /\ calls' = EntryCalls(g)
                         \o FloatResizeCalls(g, gm, bm, x, y)
                         \o <<Call("window.set_position", g, "", 0),
                              Call("window.show", g, "", 0)>>
             /\ grids' = FloatGridsAfter(g, gm, bm, x, y)
             /\ UNCHANGED panicked
  /\ UNCHANGED winFrame

\* UIState::window_external_pos
WindowExternalPos(g) ==
  /\ ~panicked
  /\ ev' = EvWin("window_external_pos", g, 0, "", 0, 0, 0, 0)
  /\ IF g \notin DOMAIN grids
     THEN /\ Panic
          /\ windows' = WindowsOnMissingGrid(g, "windows_float")
          /\ calls' = <<>>
     ELSE LET gm == Metrics(grids[g])
          IN /\ windows' = [EntryOrInsert(g, "windows_float") EXCEPT
                              ![g] = External(@, gm.cols * gm.cell_width,
                                              gm.rows * gm.cell_height)]
             /\ calls' = EntryCalls(g)
                         \o <<Call("window.set_external", g, "", 0)>>
             /\ UNCHANGED panicked
  /\ UNCHANGED grids
  /\ UNCHANGED winFrame

\* The cells of window and anchor positions.
StartCells == {0, 1}
AnchorCells == {0, 2}

\* The grids of window events: the base grid and two more.
WinGridIds == {BaseGrid, 2, 3}

\* The sizes of the grids that are given windows.
FloatSizes == {[cols |-> 2, rows |-> 1], [cols |-> 5, rows |-> 4]}

\* A ModeInfo is the name of a mode.
ModeLists == {<<"normal">>, <<"normal", "insert">>, <<"insert", "normal">>}

\* ModeChange::index
ModeIndexes == {0 - 1, 0, 1}

\* A lookup that answers an index out of range with the first element.
GetOrFirst(list, index) ==
  IF Len(list) = 0 THEN <<>>
  ELSE IF index < 0 \/ index >= Len(list) THEN <<list[1]>>
  ELSE <<list[index + 1]>>

\* mode_change: `self.mode_infos.get(index as usize)`: Some(element) for an
\* index of the list, None otherwise (a negative index becomes, as usize, a
\* value above every length).
Get(list, index) ==
  IF index < 0 \/ index >= Len(list) THEN <<>> ELSE <<list[index + 1]>>

\* UIState::mode_info_set
ModeInfoSet(mode_info) ==
  /\ ~panicked
  /\ ev' = [Ev("mode_info_set", 0, "", 0) EXCEPT !.infos = mode_info]
  /\ mode_infos' = mode_info
  /\ calls' = <<>>
  /\ UNCHANGED <<grids, current_grid, font, line_space, resize_on_flush,
                 resize_source_id, hl_groups_changed, hl_groups,
                 libwebkit2gtk, panicked, activated, cycle, hl_defs, windows,
                 current_mode, timers>>

\* Grid::set_mode(mode)
WithMode(grid, mode) == [grid EXCEPT !.mode = <<mode>>]

\* UIState::mode_change
ModeChange(index) ==
  /\ ~panicked
  /\ ev' = Ev("mode_change", 0, "", index)
  /\ IF Get(mode_infos, index) = <<>>
     THEN /\ Panic
          /\ calls' = <<>>
          /\ UNCHANGED <<current_mode, grids>>
     ELSE LET mode == Get(mode_infos, index)[1]
          IN /\ current_mode' = <<mode>>
             /\ grids' = [g \in DOMAIN grids |-> WithMode(grids[g], mode)]
             /\ calls' = ForEachGrid("grid.set_mode", "", 0)
             /\ UNCHANGED panicked
  /\ UNCHANGED <<current_grid, font, line_space, resize_on_flush,
                 resize_source_id, hl_groups_changed, hl_groups,
                 libwebkit2gtk, activated, cycle, hl_defs, windows,
                 mode_infos, timers>>

\* UIState::window_close
WindowClose(g) ==
  /\ ~panicked
  /\ ev' = EvWin("window_close", g, 0, "", 0, 0, 0, 0)
  /\ calls' = <<>>
  /\ IF g \notin DOMAIN windows
     THEN Panic /\ UNCHANGED windows
     ELSE /\ windows' = [x \in DOMAIN windows \ {g} |-> windows[x]]
          /\ UNCHANGED panicked
  /\ UNCHANGED grids
  /\ UNCHANGED winFrame

\* ------------------------------------------------------------ claims
Handled(type) == ev.type = type /\ ~panicked

ActiveGrids == {g \in DOMAIN grids : grids[g].active}

C2_OneActiveIsCurrent ==
  (activated /\ ~panicked /\ BaseGrid \in DOMAIN grids)
    => ActiveGrids = {current_grid}

\* C3: a grid_destroy of the current grid, not the base grid, leaves the base
\* grid id as current and removes exactly that grid from the registry.
C3_DestroyCurrent ==
  [][(ev'.type = "grid_destroy" /\ ~panicked'
        /\ ev'.grid = current_grid /\ ev'.grid # BaseGrid)
     => /\ current_grid' = BaseGrid
        /\ ev'.grid \in DOMAIN grids
        /\ DOMAIN grids' = DOMAIN grids \ {ev'.grid}
        /\ \A h \in DOMAIN grids' : grids'[h] = grids[h]]_vars

\* The current grid, one of three in the registry, has been destroyed.
C3_Witness ==
  /\ Handled("grid_destroy")
  /\ ev.grid = ev.cur
  /\ ev.grid # BaseGrid
  /\ current_grid = BaseGrid
  /\ Cardinality(DOMAIN grids) = 2

\* C4: a grid_destroy of a grid of the registry that is not the current grid
\* (and not the base grid) leaves current_grid unchanged.
C4_DestroyOtherKeepsCurrent ==
  [][(ev'.type = "grid_destroy" /\ ~panicked'
        /\ ev'.grid \in DOMAIN grids
        /\ ev'.grid # current_grid /\ ev'.grid # BaseGrid)
     => current_grid' = current_grid]_vars

\* The number of calls of `fn` among the calls `cs`.
Count(cs, fn) == Cardinality({i \in 1..Len(cs) : cs[i].fn = fn})

FontCalls ==
  {"popupmenu.set_font", "cmdline.set_font", "tabline.set_font",
   "cursor_tooltip.set_font"}
LineSpaceCalls ==
  {"cmdline.set_line_space", "popupmenu.set_line_space",
   "tabline.set_line_space"}
ColorCalls ==
  {"popupmenu.set_colors", "tabline.set_colors", "cmdline.set_colors",
   "cmdline.wildmenu_set_colors"}
\* The surfaces a font is propagated to in this build.
FontSurfaces ==
  {"popupmenu.set_font", "cmdline.set_font", "tabline.set_font"}
  \cup (IF libwebkit2gtk THEN {"cursor_tooltip.set_font"} ELSE {})

NoneOf(cs, fns) == \A i \in 1..Len(cs) : cs[i].fn \notin fns

\* Every call of `fns` is made exactly once among `cs`.
OnceEach(cs, fns) == \A fn \in fns : Count(cs, fn) = 1

\* C5: a flush with no resize intent pending and the groups-changed flag
\* false propagates no font, line space or colors to any auxiliary surface,
\* sends no resize request and leaves the delayed-resize timer as it was.
C5_IdleFlush ==
  [][(ev'.type = "flush" /\ ~panicked'
        /\ resize_on_flush = <<>> /\ ~hl_groups_changed)
     => /\ NoneOf(calls', FontCalls \cup LineSpaceCalls \cup ColorCalls)
        /\ NoneOf(calls', {"nvim.ui_try_resize", "glib.source_remove",
                           "glib.timeout_add"})
        /\ resize_source_id' = resize_source_id]_vars

\* Such a flush has run while a delayed resize call was outstanding.
C5_Witness ==
  /\ Handled("flush")
  /\ ~ev.pending
  /\ ~ev.changed
  /\ resize_source_id # <<>>

\* C6: after n >= 1 GuiFont events since the last flush, the flush applies
\* the resize intent once: one cell-metric update per grid, one resize-screen
\* request, one font propagation per auxiliary surface, all with the font of
\* the last GuiFont event.
C6_FontEventsCollapse ==
  [][(ev'.type = "flush" /\ ~panicked' /\ cycle.nFont >= 1)
     => /\ DOMAIN grids' = DOMAIN grids
        /\ \A g \in DOMAIN grids :
             /\ Cardinality({i \in 1..Len(calls') :
                   /\ calls'[i].fn = "grid.update_cell_metrics"
                   /\ calls'[i].grid = g}) = 1
             /\ grids'[g].font = cycle.lastFont
        /\ \A i \in 1..Len(calls') :
             calls'[i].fn \in FontCalls \cup {"grid.update_cell_metrics"}
               => calls'[i].font = cycle.lastFont
        /\ Count(calls', "nvim.ui_try_resize") = 1
        /\ OnceEach(calls', FontSurfaces)
        /\ NoneOf(calls', FontCalls \ FontSurfaces)]_vars

\* A flush has applied the intent of two or more GuiFont events to two grids.
C6_Witness ==
  /\ Handled("flush")
  /\ ev.nFont >= 2
  /\ Cardinality(DOMAIN grids) >= 2
  /\ Count(calls, "nvim.ui_try_resize") = 1
  /\ Count(calls, "grid.update_cell_metrics") = Cardinality(DOMAIN grids)

\* The field values C7 expects of the pending intent.
ExpectedIntent ==
  ResizeOptions(
    IF cycle.nFont > 0 THEN cycle.lastFont ELSE cycle.baseFont,
    IF cycle.gotLineSpace THEN cycle.lastLineSpace ELSE cycle.baseLineSpace)

\* C7: the pending intent is last-writer-wins per field: it holds the font
\* of the last GuiFont event and the line space of the last LineSpace event
\* since the last flush, and for a field with no event the base grid's value
\* when the first of these events arrived; the flush applies these values;
\* an option that is not supported changes nothing.
C7_LastWriterWins ==
  /\ [](~panicked =>
          IF cycle.nFont = 0 /\ ~cycle.gotLineSpace
          THEN resize_on_flush = <<>>
          ELSE resize_on_flush = <<ExpectedIntent>>)
  /\ [][(ev'.type = "flush" /\ ~panicked' /\ resize_on_flush # <<>>)
        => /\ \A g \in DOMAIN grids' :
                /\ grids'[g].font = ExpectedIntent.font
                /\ grids'[g].line_space = ExpectedIntent.line_space
           /\ \A i \in 1..Len(calls') :
                /\ calls'[i].fn \in FontCalls
                     => calls'[i].font = ExpectedIntent.font
                /\ calls'[i].fn \in LineSpaceCalls
                     => calls'[i].ls = ExpectedIntent.line_space]_vars
  /\ [][(ev'.type = "option_set" /\ ev'.name \notin {"guifont", "linespace"})
        => UNCHANGED <<grids, current_grid, font, line_space,
                       resize_on_flush, resize_source_id, hl_groups_changed,
                       hl_groups, panicked>>]_vars

\* An intent is pending whose font and line space were both written, the
\* font differing from the base grid's font.
C7_Witness ==
  /\ ~panicked
  /\ cycle.nFont >= 2
  /\ cycle.gotLineSpace
  /\ resize_on_flush # <<>>
  /\ resize_on_flush[1].font = cycle.lastFont
  /\ BaseGrid \in DOMAIN grids
  /\ grids[BaseGrid].font # resize_on_flush[1].font
  /\ grids[BaseGrid].line_space # resize_on_flush[1].line_space

\* C8: a flush applies a pending intent and leaves none pending; a flush
\* with no GuiFont or LineSpace event since the previous flush sends no
\* resize-screen request and propagates no font or line space.
C8_IntentConsumedOnce ==
  [][(ev'.type = "flush" /\ ~panicked')
     => /\ resize_on_flush' = <<>>
        /\ resize_on_flush # <<>>
             => /\ Count(calls', "nvim.ui_try_resize") = 1
                /\ OnceEach(calls', FontSurfaces \cup LineSpaceCalls)
        /\ (cycle.nFont = 0 /\ ~cycle.gotLineSpace)
             => /\ Count(calls', "nvim.ui_try_resize") = 0
                /\ NoneOf(calls', FontCalls \cup LineSpaceCalls)
                /\ grids' = grids]_vars

\* A flush with nothing pending has run after an earlier flush had applied
\* an intent (the base grid no longer has the font it started with).
C8_Witness ==
  /\ Handled("flush")
  /\ ~ev.pending
  /\ resize_on_flush = <<>>
  /\ BaseGrid \in DOMAIN grids
  /\ grids[BaseGrid].font # DefaultFont
  /\ Count(calls, "nvim.ui_try_resize") = 0

\* C9: an hl_group_set that rebinds a group sets the groups-changed flag;
\* the next flush pushes the colors to popup menu, tab line, command line
\* and wildmenu once each and clears the flag; a flush with the flag clear
\* pushes no colors; only a flush clears the flag.
C9_ColorsPushedOnce ==
  /\ [][(ev'.type = "hl_group_set" /\ ev'.name \in RecognisedNames)
        => hl_groups_changed']_vars
  /\ [][(ev'.type = "flush" /\ ~panicked')
        => /\ hl_groups_changed' = FALSE
           /\ IF hl_groups_changed
              THEN OnceEach(calls', ColorCalls)
              ELSE NoneOf(calls', ColorCalls)]_vars
  /\ [][(hl_groups_changed /\ ~hl_groups_changed')
        => ev'.type = "flush"]_vars

\* A flush has pushed the colors after the group of "Normal" was rebound.
C9_Witness ==
  /\ Handled("flush")
  /\ ev.changed
  /\ "Cmdline" \in DOMAIN hl_groups
  /\ ~hl_groups_changed
  /\ OnceEach(calls, ColorCalls)

\* C10: an hl_group_set whose name is not recognised changes no group
\* binding and does not mark the highlight groups as changed.
C10_UnknownNameIgnored ==
  [][(ev'.type = "hl_group_set" /\ ev'.name \notin RecognisedNames)
     => /\ hl_groups' = hl_groups
        /\ hl_groups_changed' = hl_groups_changed
        /\ ~panicked']_vars

\* C11: after any sequence of default_colors_set and hl_attr_define events,
\* with any ids, highlight definition 0 has the current default foreground,
\* background and special colors (a color it leaves unset resolves to the
\* default one).
C11_ZeroIsDefault ==
  ~panicked =>
    /\ 0 \in DOMAIN hl_defs.defs
    /\ UnwrapOr(hl_defs.defs[0].foreground, hl_defs.default_fg)
         = hl_defs.default_fg
    /\ UnwrapOr(hl_defs.defs[0].background, hl_defs.default_bg)
         = hl_defs.default_bg
    /\ UnwrapOr(hl_defs.defs[0].special, hl_defs.default_sp)
         = hl_defs.default_sp

\* The events of the received notification that have been applied.
Applied == SubSeq(received, 1, Len(received) - Len(batch))

\* The events that change the grid model.
ModelEvents == {"grid_resize", "grid_destroy", "option_set"}

\* C12 as claimed: once the flush marker of a notification has been
\* processed, no model-changing event of the same notification is applied.
C12_FlushIsLast ==
  [][(Len(batch') < Len(batch)
      /\ \E i \in 1..Len(Applied) : Applied[i].type = "flush")
     => ev'.type \notin ModelEvents]_vars

\* C12, amended: the events of a notification are applied in arrival order,
\* the commit runs in the step that applies the flush marker, and it is the
\* last step of the notification when the marker is its last event.
C12_ArrivalOrder ==
  [][Len(batch') < Len(batch)
     => LET k == Len(Applied) + 1
        IN /\ ev'.type = received[k].type
           /\ ev'.grid = received[k].grid
           /\ batch' = SubSeq(received, k + 1, Len(received))
           /\ (received[k].type = "flush" /\ ~panicked')
                => /\ resize_on_flush' = <<>>
                   /\ ~hl_groups_changed'
                   /\ k = Len(received) => batch' = <<>>]_vars

\* A notification of model events and then the marker has been applied
\* whole, the commit with a pending intent last.
C12_Witness ==
  /\ Handled("flush")
  /\ ev.pending
  /\ batch = <<>>
  /\ Len(received) = MaxBatch
  /\ received[1].type = "grid_resize"
  /\ received[2].type = "option_set"

\* C13: a grid_resize leaves its grid in the registry (creating it when it
\* was absent) with exactly the width and height of the event, changes
\* nothing else of an existing grid, and neither removes nor changes any
\* other grid; no other event changes the size of a grid that stays in the
\* registry, so a grid has the size of the most recent grid_resize on it.
C13_ResizeSetsSize ==
  [][/\ (ev'.type = "grid_resize" /\ ~panicked')
          => LET g == ev'.grid
             IN /\ DOMAIN grids' = DOMAIN grids \cup {g}
                /\ grids'[g].cols = ev'.w
                /\ grids'[g].rows = ev'.h
                /\ g \in DOMAIN grids
                     => grids'[g] = [grids[g] EXCEPT !.cols = ev'.w,
                                                     !.rows = ev'.h]
                /\ \A o \in DOMAIN grids \ {g} : grids'[o] = grids[o]
     /\ \A g \in DOMAIN grids \cap DOMAIN grids' :
          (ev'.type # "grid_resize" \/ ev'.grid # g)
            => /\ grids'[g].cols = grids[g].cols
               /\ grids'[g].rows = grids[g].rows]_vars

\* The base grid, present from the start with another size, has been
\* resized, and a second grid has been created by its first grid_resize.
C13_Witness ==
  /\ Handled("grid_resize")
  /\ ev.grid = BaseGrid
  /\ ev.w = 5 /\ ev.h = 1
  /\ grids[BaseGrid].cols = 5 /\ grids[BaseGrid].rows = 1
  /\ 2 \in DOMAIN grids
  /\ grids[2].cols = 2 /\ grids[2].rows = 4

\* C14: a float position places the window's left edge at
\* max(0, anchor x offset + anchor_col * anchor cell width - (the float's
\* width if the anchor is east)) and its top edge at max(0, anchor y offset
\* + anchor_row * anchor cell height - (the float's height if the anchor is
\* south)); both are never negative, and a south-east anchor at cell (0,0)
\* of the base grid places the window at (0,0).
C14_FloatTopLeft ==
  [][(ev'.type = "window_float_pos" /\ ~panicked')
     => LET g == ev'.grid
            ag == ev'.val
            x_offset == IF ag = BaseGrid THEN 0 ELSE windows[ag].x
            y_offset == IF ag = BaseGrid THEN 0 ELSE windows[ag].y
            am == Metrics(grids[ag])
            gm == Metrics(grids[g])
            east == ev'.anchor \in {"NE", "SE"}
            south == ev'.anchor \in {"SW", "SE"}
        IN /\ windows'[g].x =
                Max(0, x_offset + ev'.col * am.cell_width
                       - (IF east THEN gm.cols * gm.cell_width ELSE 0))
           /\ windows'[g].y =
                Max(0, y_offset + ev'.row * am.cell_height
                       - (IF south THEN gm.rows * gm.cell_height ELSE 0))
           /\ windows'[g].x >= 0
           /\ windows'[g].y >= 0
           /\ (ev'.anchor = "SE" /\ ag = BaseGrid /\ ev'.row = 0
               /\ ev'.col = 0)
                => (windows'[g].x = 0 /\ windows'[g].y = 0)]_vars

\* A float anchored south-east on a window that is not at the origin has
\* been placed clear of the edges, and so has one whose anchor is clamped.
C14_Witness ==
  /\ Handled("window_float_pos")
  /\ ev.anchor = "SE"
  /\ ev.val # BaseGrid
  /\ ev.grid # ev.val
  /\ windows[ev.val].x > 0
  /\ windows[ev.grid].x > 0
  /\ windows[ev.grid].y > 0
  /\ windows[ev.grid].x < windows[ev.val].x + ev.col * CellWidth(DefaultFont)

\* The resize-grid requests among the calls.
ResizeGridCalls(cs) ==
  {i \in 1..Len(cs) : cs[i].fn = "nvim.ui_try_resize_grid"}

\* C15: a float placed at cell offset (r0, c0) = (y / base cell height,
\* x / base cell width) that extends past the base grid (rows + r0 > base
\* rows or cols + c0 > base cols) is followed by one resize-grid request
\* for its grid that asks for base rows - r0 rows and base cols - c0
\* columns on the axes that overflow and for the grid's own count on an
\* axis that does not; without overflow no request is made.
C15_OverflowRequest ==
  [][(ev'.type = "window_float_pos" /\ ~panicked')
     => LET g == ev'.grid
            gm == Metrics(grids[g])
            bm == Metrics(grids[BaseGrid])
            x == windows'[g].x
            y == windows'[g].y
            rowsOver == gm.rows * bm.cell_height + y > bm.rows * bm.cell_height
            colsOver == gm.cols * bm.cell_width + x > bm.cols * bm.cell_width
            reqs == ResizeGridCalls(calls')
        IN IF rowsOver \/ colsOver
           THEN /\ Cardinality(reqs) = 1
                /\ \A i \in reqs :
                     /\ calls'[i].grid = g
                     /\ calls'[i].row =
                          IF rowsOver
                          THEN TruncDiv(bm.rows * bm.cell_height - y,
                                        bm.cell_height)
                          ELSE gm.rows
                     /\ calls'[i].col =
                          IF colsOver
                          THEN TruncDiv(bm.cols * bm.cell_width - x,
                                        bm.cell_width)
                          ELSE gm.cols
           ELSE reqs = {}]_vars

\* The positions of the calls of `fn` among `cs`.
CallsOf(cs, fn) == {i \in 1..Len(cs) : cs[i].fn = fn}

\* C16: the delayed resize requests that are scheduled and not cancelled
\* are at most one, the one resize_source_id names; a flush that applies a
\* resize intent removes it before it sends its own resize request and
\* leaves none pending; and a delayed request that runs is the one that
\* resize_source_id named, never one that was cancelled.
C16_OneDelayedRequest ==
  /\ [](timers = Outstanding /\ Cardinality(timers) <= 1)
  /\ [][(ev'.type = "flush" /\ ev'.pending /\ ~panicked')
        => /\ timers' = {}
           /\ resize_source_id' = <<>>
           /\ Count(calls', "nvim.ui_try_resize") = 1
           /\ Count(calls', "glib.source_remove")
                = Cardinality(Outstanding)
           /\ \A i \in CallsOf(calls', "glib.source_remove"),
                 j \in CallsOf(calls', "nvim.ui_try_resize") : i < j]_vars
  /\ [][ev'.type = "timeout" => resize_source_id = <<ev'.name>>]_vars

\* A flush with a resize intent has cancelled the delayed request that was
\* outstanding, itself the replacement of an earlier one.
C16_Witness ==
  /\ Handled("flush")
  /\ ev.pending
  /\ Count(calls, "glib.source_remove") = 1
  /\ timers = {}

\* C17: a flush with a pending resize intent sends a resize-screen request
\* only if the base grid's columns and rows recomputed under the new font
\* and line space differ from the ones it has.
C17_ResizeOnlyIfDiffers ==
  [][(ev'.type = "flush" /\ ev'.pending /\ ~panicked')
     => LET opts == resize_on_flush[1]
            size == CalcSize(opts.font, opts.line_space)
        IN (size.cols = grids[BaseGrid].cols
            /\ size.rows = grids[BaseGrid].rows)
             => NoneOf(calls', {"nvim.ui_try_resize"})]_vars

WindowPosEvents == {"window_pos", "window_float_pos", "window_external_pos"}

\* C18: a window entry is made only by a position event, for the grid the
\* event names, and only when that grid is in the registry of grids; a
\* position event that names a grid which is not there, or a float whose
\* anchor grid is not there, aborts the handler and makes no window entry.
C18_WindowNeedsGrid ==
  [][/\ \A g \in DOMAIN windows' \ DOMAIN windows :
          /\ g \in DOMAIN grids
          /\ ev'.type \in WindowPosEvents
          /\ ev'.grid = g
     /\ (ev'.type \in WindowPosEvents /\ ev'.grid \notin DOMAIN grids)
          => (panicked' /\ windows' = windows)
     /\ (ev'.type = "window_float_pos" /\ ev'.val \notin DOMAIN grids)
          => (panicked' /\ windows' = windows)]_vars

\* A position event has named a grid that is not in the registry, after
\* another grid was given its window.
C18_Witness ==
  /\ panicked
  /\ ev.type \in WindowPosEvents
  /\ ev.grid \notin DOMAIN grids
  /\ ev.grid \notin DOMAIN windows
  /\ windows # <<>>

\* C19: a window_pos makes the window entry of its grid when there is none,
\* and the same window_pos applied again only repositions: the registry of
\* windows, the window's geometry and the grids are as after the first.
C19_PosIdempotent ==
  [][(ev'.type = "window_pos" /\ ~panicked')
     => /\ DOMAIN windows' = DOMAIN windows \cup {ev'.grid}
        /\ Count(calls', "Window::new")
             = (IF ev'.grid \in DOMAIN windows THEN 0 ELSE 1)
        /\ Count(calls', "window.set_position") = 1
        /\ ev'.again
             => /\ windows' = windows
                /\ grids' = grids
                /\ Count(calls', "Window::new") = 0]_vars

\* The same window_pos has been applied twice in a row, away from the
\* origin.
C19_Witness ==
  /\ Handled("window_pos")
  /\ ev.again
  /\ ev.grid # BaseGrid
  /\ windows[ev.grid].x > 0
  /\ windows[ev.grid].y > 0

\* C20: once a mode_change has been handled every grid of the registry
\* holds the current mode, grids created by later grid_resize events
\* included; a mode_change makes the descriptor at its index the current
\* mode, and a mode_info_set replaces the descriptor list and changes
\* neither the current mode nor any grid.
C20_GridsHoldCurrentMode ==
  /\ [](current_mode # <<>>
          => \A g \in DOMAIN grids : grids[g].mode = current_mode)
  /\ [][(ev'.type = "mode_change" /\ ~panicked')
        => current_mode' = <<mode_infos[ev'.val + 1]>>]_vars
  /\ [][ev'.type = "mode_info_set"
        => /\ mode_infos' = ev'.infos
           /\ current_mode' = current_mode
           /\ grids' = grids]_vars

\* A grid has been created after a mode_change, and after a mode_info_set
\* that moved the current mode's descriptor to another index.
C20_Witness ==
  /\ Handled("grid_resize")
  /\ Len(calls) > 0 /\ calls[1].fn = "Grid::new"
  /\ current_mode = <<"insert">>
  /\ mode_infos = <<"normal">>
  /\ grids[ev.grid].mode = <<"insert">>

\* C21: a cursor_goto either completes the whole switch (the grid that was
\* current is inactive, the target grid is current and active and is told
\* the cursor's row and column) or, when the target grid is not in the
\* registry, aborts with the current grid id and every grid's active flag
\* as they were before the event.
C21_CursorGotoAtomic ==
  [][ev'.type = "grid_cursor_goto"
     => IF ev'.grid \in DOMAIN grids
        THEN ~panicked'
               => /\ current_grid' = ev'.grid
                  /\ grids'[ev'.grid].active
                  /\ (current_grid # ev'.grid
                        => ~grids'[current_grid].active)
                  /\ Count(calls', "grid.cursor_goto") = 1
        ELSE /\ panicked'
             /\ current_grid' = current_grid
             /\ DOMAIN grids' = DOMAIN grids
             /\ \A g \in DOMAIN grids :
                  grids'[g].active = grids[g].active]_vars

\* C22: a mode_change with an index of the most recently received
\* mode-info list makes the element at that index the current mode (and
\* the mode of every grid); one whose index is negative or not below the
\* length of the list aborts the handler and changes neither the current
\* mode nor any grid. Only a mode_info_set changes the list.
C22_ModeChangeIndex ==
  /\ [][ev'.type = "mode_change"
        => IF 0 <= ev'.val /\ ev'.val < Len(mode_infos)
           THEN /\ ~panicked'
                /\ current_mode' = <<mode_infos[ev'.val + 1]>>
                /\ \A g \in DOMAIN grids' :
                     grids'[g].mode = <<mode_infos[ev'.val + 1]>>
           ELSE /\ panicked'
                /\ current_mode' = current_mode
                /\ grids' = grids]_vars
  /\ [][mode_infos' # mode_infos
        => (ev'.type = "mode_info_set" /\ mode_infos' = ev'.infos)]_vars

\* A mode_change with a negative index has been refused after an earlier
\* one had set the current mode on two grids.
C22_Witness ==
  /\ panicked
  /\ ev.type = "mode_change"
  /\ ev.val < 0
  /\ current_mode = <<"insert">>
  /\ Cardinality(DOMAIN grids) = 2
  /\ \A g \in DOMAIN grids : grids[g].mode = <<"insert">>

\* C23: a grid_destroy of a grid id that is not in the registry aborts the
\* handler, and the registry and the current grid id are as before.
C23_DestroyMissing ==
  [][(ev'.type = "grid_destroy" /\ ev'.grid \notin DOMAIN grids)
     => /\ panicked'
        /\ grids' = grids
        /\ current_grid' = current_grid]_vars

\* A grid has been destroyed twice with no grid_resize between, while
\* another grid than the base grid was current.
C23_Witness ==
  /\ panicked
  /\ ev.type = "grid_destroy"
  /\ ev.grid \notin DOMAIN grids
  /\ current_grid # BaseGrid
  /\ current_grid \in DOMAIN grids

\* C24: a float position changes no grid of the model, also when it makes
\* a resize-grid request: the window gets the width and height of the
\* grid's own columns and rows, and the size of a grid changes only with an
\* event that names the grid and resizes it.
C24_FloatKeepsGrids ==
  [][/\ ev'.type = "window_float_pos"
          => /\ grids' = grids
             /\ ~panicked'
                  => LET gm == Metrics(grids[ev'.grid])
                     IN /\ windows'[ev'.grid].width
                             = gm.cols * gm.cell_width
                        /\ windows'[ev'.grid].height
                             = gm.rows * gm.cell_height
     /\ \A g \in DOMAIN grids \cap DOMAIN grids' :
          (grids'[g].cols # grids[g].cols \/ grids'[g].rows # grids[g].rows)
            => (ev'.type \in {"grid_resize", "window_pos"}
                /\ ev'.grid = g)]_vars

\* A float larger than the base grid has been placed: the request was
\* made and the grid has the size it had.
C24_Witness ==
  /\ Handled("window_float_pos")
  /\ ResizeGridCalls(calls) # {}
  /\ grids[ev.grid].cols = 5 /\ grids[ev.grid].rows = 4
  /\ \E i \in ResizeGridCalls(calls) :
       calls[i].col < 5 /\ calls[i].row < 4
  /\ windows[ev.grid].width = 5 * CellWidth(grids[ev.grid].font)

\* C25: whenever no resize intent is pending, and so after every flush,
\* every grid of the registry has the state's font and line space, for
\* every interleaving of option_set, grid_resize, grid_destroy and flush
\* events that are handled without aborting.
C25_GridsFollowFont ==
  (resize_on_flush = <<>> /\ ~panicked)
    => \A g \in DOMAIN grids :
         /\ grids[g].font = font
         /\ grids[g].line_space = line_space

\* A flush has applied a font and a line space that are not the initial
\* ones to two grids.
C25_Witness ==
  /\ Handled("flush")
  /\ ev.pending
  /\ resize_on_flush = <<>>
  /\ font # DefaultFont
  /\ line_space = 2
  /\ Cardinality(DOMAIN grids) = 2
  /\ \A g \in DOMAIN grids : grids[g].font = font /\ grids[g].line_space = 2

\* C26: a grid_destroy leaves the registry of windows as it is, the entry
\* of the destroyed grid included; a window entry goes only with a
\* window_close of its grid id, which removes that entry alone and leaves
\* the registry of grids as it is.
C26_WindowsOutliveGrids ==
  [][/\ ev'.type = "grid_destroy" => windows' = windows
     /\ \A g \in DOMAIN windows \ DOMAIN windows' :
          ev'.type = "window_close" /\ ev'.grid = g
     /\ ev'.type = "window_close"
          => /\ grids' = grids
             /\ ~panicked'
                  => /\ ev'.grid \in DOMAIN windows
                     /\ DOMAIN windows' = DOMAIN windows \ {ev'.grid}
                     /\ \A g \in DOMAIN windows' :
                          windows'[g] = windows[g]]_vars

\* A grid with a window has been destroyed and its window is in the
\* registry, next to another one.
C26_Witness ==
  /\ Handled("grid_destroy")
  /\ ev.grid \notin DOMAIN grids
  /\ ev.grid \in DOMAIN windows
  /\ Cardinality(DOMAIN windows) = 2

\* C27: a resize-grid request made by a float position whose anchor cell
\* is a cell of the base grid asks for at least one row and at least one
\* column, whatever the anchor corner.
C27_RequestAtLeastOne ==
  [][(/\ ev'.type = "window_float_pos"
      /\ ~panicked'
      /\ ev'.val = BaseGrid
      /\ 0 <= ev'.row /\ ev'.row < grids[BaseGrid].rows
      /\ 0 <= ev'.col /\ ev'.col < grids[BaseGrid].cols)
     => \A i \in ResizeGridCalls(calls') :
          calls'[i].row >= 1 /\ calls'[i].col >= 1]_vars

\* UIState::handle_redraw_event on the grid events and flush
NextGrid ==
  /\ UNCHANGED <<batch, received>>
  /\ \/ \E g \in GridIds, row \in Cells, col \in Cells :
          GridCursorGoto(g, row, col)
     \/ \E g \in GridIds : GridResize(g, BaseCols, BaseRows)
     \/ \E g \in GridIds : GridDestroy(g)
     \/ Flush

SpecGrid == Init /\ [][NextGrid]_vars

\* UIState::handle_redraw_event on the events flush reconciles
NextFlush ==
  /\ UNCHANGED <<batch, received>>
  /\ \/ \E name \in OptionNames, s \in GuiFonts, val \in LineSpaces :
          OptionSet(name, s, val)
     \/ \E name \in FewHlNames : HlGroupSet(name, 1)
     \/ \E g \in FlushGridIds : GridResize(g, BaseCols, BaseRows)
     \/ \E g \in FlushGridIds : GridDestroy(g)
     \/ Flush

SpecFlush == Init /\ [][NextFlush]_vars

\* The same events on the base grid alone, with the window's delayed resize
\* call being scheduled and run in between
NextTimer ==
  /\ UNCHANGED <<batch, received>>
  /\ \/ \E name \in OptionNames, s \in GuiFonts, val \in LineSpaces :
          OptionSet(name, s, val)
     \/ \E name \in FewHlNames : HlGroupSet(name, 1)
     \/ Flush
     \/ ScheduleDelayedResize
     \/ DelayedResizeFires

SpecTimer == Init /\ [][NextTimer]_vars

\* UIState::handle_redraw_event on the highlight-group events, over every
\* group name, and flush
NextHl ==
  /\ UNCHANGED <<batch, received>>
  /\ \/ \E name \in AllHlNames, id \in HlIds : HlGroupSet(name, id)
     \/ Flush

SpecHl == Init /\ [][NextHl]_vars

\* UIState::handle_redraw_event on the highlight definition events
NextHlDefs ==
  /\ UNCHANGED <<batch, received>>
  /\ \/ \E fg \in Colors, bg \in Colors, sp \in Colors :
          DefaultColorsSet(fg, bg, sp)
     \/ \E id \in HlDefIds, hl \in Highlights : HlAttrDefine(id, hl)

SpecHlDefs == Init /\ [][NextHlDefs]_vars

\* UIState::handle_notify on notifications of redraw events
NextBatch ==
  \/ \E events \in Notifications : ReceiveNotify(events)
  \/ HandleNext

SpecBatch == Init /\ [][NextBatch]_vars

\* UIState::handle_redraw_event on grid events of every size
NextSize ==
  /\ UNCHANGED <<batch, received>>
  /\ \/ \E g \in FlushGridIds, w \in Widths, h \in Heights :
          GridResize(g, w, h)
     \/ \E g \in FlushGridIds : GridDestroy(g)
     \/ \E g \in FlushGridIds : GridCursorGoto(g, 0, 0)
     \/ \E val \in LineSpaces : OptionSet("linespace", "", val)
     \/ Flush

SpecSize == Init /\ [][NextSize]_vars

\* UIState::handle_redraw_event on grid sizes, window and float positions:
\* grid 2 is given a window, grid 3 floats on the base grid or on grid 2
NextFloat ==
  /\ UNCHANGED <<batch, received>>
  /\ \/ \E size \in FloatSizes : GridResize(3, size.cols, size.rows)
     \/ GridResize(2, BaseCols, BaseRows)
     \/ \E r \in StartCells, c \in StartCells :
          WindowPos(2, r, c, BaseCols, BaseRows)
     \/ \E ag \in {BaseGrid, 2}, anchor \in Anchors, r \in AnchorCells,
           c \in AnchorCells : WindowFloatPos(3, ag, anchor, r, c)
     \/ OptionSet("linespace", "", 2)

SpecFloat == Init /\ [][NextFloat]_vars

\* UIState::handle_redraw_event on grid and window events
NextWin ==
  /\ UNCHANGED <<batch, received>>
  /\ \/ \E g \in {2, 3} : GridResize(g, BaseCols, BaseRows)
     \/ \E g \in WinGridIds : GridDestroy(g)
     \/ \E g \in {BaseGrid, 2}, r \in StartCells, c \in StartCells :
          WindowPos(g, r, c, BaseCols, BaseRows)
     \/ \E ag \in WinGridIds, anchor \in {"NW", "SE"} :
          WindowFloatPos(3, ag, anchor, 0, 0)
     \/ \E g \in {2, 3} : WindowExternalPos(g)
     \/ \E g \in WinGridIds : WindowClose(g)

SpecWin == Init /\ [][NextWin]_vars

\* UIState::handle_redraw_event on mode and grid events
NextMode ==
  /\ UNCHANGED <<batch, received>>
  /\ \/ \E mode_info \in ModeLists : ModeInfoSet(mode_info)
     \/ \E index \in ModeIndexes : ModeChange(index)
     \/ \E g \in FlushGridIds : GridResize(g, BaseCols, BaseRows)
     \/ \E g \in FlushGridIds : GridDestroy(g)

SpecMode == Init /\ [][NextMode]_vars

====
